---------------------------- MODULE Spec2Model ----------------------------
(***************************************************************************)
(* Model of the ipm command-line client: the keyring adapter (auth.ts),    *)
(* the interactive prompt (input.ts), the authentication flow and the      *)
(* command router (index.ts) and the client factory (ipm.ts).              *)
(*                                                                         *)
(* A JavaScript string is a sequence of one-character strings.  The OS     *)
(* keyring, the URI opener, the terminal and the package-manager library   *)
(* are the environment: each call to them draws its outcome from the       *)
(* outcomes that call can have.                                            *)
(***************************************************************************)
EXTENDS Integers, Sequences, FiniteSets, TLC

(* ------------------------------ bounds --------------------------------- *)

\* longest line typed at the access-token prompt
MaxTokenLen == 3

(* --------------------------- strings ----------------------------------- *)

Space == " "
Colon == ":"

TokenChars == {"a", Colon, Space}

RECURSIVE StringsUpTo(_, _)
StringsUpTo(chars, n) ==
    IF n = 0 THEN {<<>>}
    ELSE LET shorter == StringsUpTo(chars, n - 1)
         IN  shorter \cup {Append(s, c) : s \in shorter, c \in chars}

RawTokens == StringsUpTo(TokenChars, MaxTokenLen)

\* the lines typed at the reconfigure prompt
RawAnswers ==
    { <<>>, <<Space>>,
      <<"y">>, <<"Y">>, <<Space, "Y", Space>>,
      <<"y", "e", "s">>, <<"Y", "E", "S">>, <<"Y", "e", "s", Space>>,
      <<"n">>, <<"N">>, <<"n", "o">>,
      <<"y", "e">>, <<"y", "e", "s", "s">>, <<"y", Space, "e", "s">>,
      <<"o", "k">> }

\* String.prototype.trim of input.ts:17
RECURSIVE TrimStart(_)
TrimStart(s) ==
    IF s # <<>> /\ Head(s) = Space THEN TrimStart(Tail(s)) ELSE s

RECURSIVE TrimEnd(_)
TrimEnd(s) ==
    IF s # <<>> /\ s[Len(s)] = Space THEN TrimEnd(SubSeq(s, 1, Len(s) - 1)) ELSE s

Trim(s) == TrimEnd(TrimStart(s))

\* String.prototype.toLowerCase of index.ts:19
LowerChar(c) ==
    CASE c = "Y" -> "y"
      [] c = "E" -> "e"
      [] c = "S" -> "s"
      [] c = "N" -> "n"
      [] OTHER -> c

ToLowerCase(s) == [i \in 1..Len(s) |-> LowerChar(s[i])]

\* position of the first colon of s, 0 when s has none
RECURSIVE IndexOfColon(_, _)
IndexOfColon(s, i) ==
    IF i > Len(s) THEN 0
    ELSE IF s[i] = Colon THEN i
    ELSE IndexOfColon(s, i + 1)

\* String.prototype.split(':') of auth.ts:30: every colon separates two fields
RECURSIVE Split(_)
Split(s) ==
    LET i == IndexOfColon(s, 1)
    IN  IF i = 0 THEN <<s>>
        ELSE <<SubSeq(s, 1, i - 1)>> \o Split(SubSeq(s, i + 1, Len(s)))

(* --------------------------- values ------------------------------------ *)

\* null, and a value that is not null
Null == <<>>
Some(v) == <<v>>

\* the value of a missing array element or of `null?.field`
Undefined == <<"undefined">>


(* ----------------------- credential store ------------------------------ *)

\* what a keyring call can do: work, or raise in `new Entry(...)`, in
\* `getPassword()` or in `setPassword()`
ReadFaults == {"none", "entry", "getPassword"}
WriteFaults == {"none", "entry", "setPassword"}

\* getEntry followed by entry.getPassword(): the stored string or null, or a throw
TryGetPassword(stored, fault) ==
    IF fault = "none"
    THEN [threw |-> FALSE, value |-> stored]
    ELSE [threw |-> TRUE, value |-> Null]

\* JavaScript truthiness of `string | null`
Truthy(password) == password # Null /\ password[1] # <<>>

\* const [accessKeyId, secretAccessKey] = token.split(':')
AccessKey(tokenString) ==
    LET fields == Split(tokenString)
    IN  [accessKeyId |-> fields[1],
         secretAccessKey |-> IF Len(fields) >= 2 THEN fields[2] ELSE Undefined]

\* getAccessToken without its try/catch
getAccessToken_NoCatch(stored, fault) ==
    LET r == TryGetPassword(stored, fault)
    IN  IF r.threw
        THEN [threw |-> TRUE, value |-> Null]
        ELSE IF Truthy(r.value)
             THEN [threw |-> FALSE, value |-> Some(AccessKey(r.value[1]))]
             ELSE [threw |-> FALSE, value |-> Null]

\* getAccessToken: the completion of the call, a return of AccessKey | null
getAccessToken(stored, fault) ==
    LET r == TryGetPassword(stored, fault)
    IN  IF r.threw
        THEN [threw |-> FALSE, value |-> Null]
        ELSE IF Truthy(r.value)
             THEN [threw |-> FALSE, value |-> Some(AccessKey(r.value[1]))]
             ELSE [threw |-> FALSE, value |-> Null]

\* saveAccessToken that builds the entry and never calls setPassword
saveAccessToken_NoSetPassword(stored, tokenString, fault) ==
    [threw |-> fault = "entry", stored |-> stored]

\* saveAccessToken: the completion of the call and the keyring after it
saveAccessToken(stored, tokenString, fault) ==
    IF fault = "none"
    THEN [threw |-> FALSE, stored |-> Some(tokenString)]
    ELSE [threw |-> TRUE, stored |-> stored]

\* isAuthenticated
isAuthenticated(stored, fault) == getAccessToken(stored, fault).value # Null

(* ------------------------- interactive prompt -------------------------- *)

\* prompt that resolves with the line as typed
prompt_NoTrim(line) == line

\* prompt resolves with answer.trim()
prompt(line) == Trim(line)

(* --------------------------- command router ---------------------------- *)

DataCommands ==
    {"list", "outdated", "install", "update", "uninstall", "search", "info"}
Commands == {"configure"} \cup DataCommands

\* the ways the external operation of a command can complete
Outcomes(c) ==
    CASE c \in {"list", "outdated", "search"} -> {"none", "some", "raised"}
      [] c \in {"install", "update", "info"} -> {"ok", "raised"}
      [] c = "uninstall" -> {"true", "false", "raised"}

\* a test that takes the empty answer for the default and the default for yes
Declines_EmptyIsYes(ans) ==
    /\ ans # <<>>
    /\ ToLowerCase(ans) # <<"y">>
    /\ ToLowerCase(ans) # <<"y", "e", "s">>

\* index.ts:19, the test that cancels the reconfiguration
Declines(ans) == ToLowerCase(ans) # <<"y">> /\ ToLowerCase(ans) # <<"y", "e", "s">>

\* index.ts:34, `!token`
IsEmptyToken(tok) == tok = <<>>

\* configure() returning into ensureAuthenticated whoever called it
AfterConfigure_AlwaysGuard(c) == "reread"

\* where control goes when configure() returns: the configure command ends,
\* ensureAuthenticated goes on to its second read
AfterConfigure(c) == IF c = "configure" THEN "exit" ELSE "reread"

\* the guard with its test inverted
NeedsConfigure_Inverted(tok) == tok # Null

\* index.ts:55, `!token`
NeedsConfigure(tok) == tok = Null

\* the message each command logs for a completed operation
SuccessMessage(c, outcome) ==
    CASE c = "list" /\ outcome = "none" -> "info: No packages installed."
      [] c = "list" /\ outcome = "some" -> "info: Installed packages"
      [] c = "outdated" /\ outcome = "none" -> "info: All packages are up to date."
      [] c = "outdated" /\ outcome = "some" -> "info: Outdated packages"
      [] c = "search" /\ outcome = "none" -> "info: No packages found."
      [] c = "search" /\ outcome = "some" -> "info: Found package(s)"
      [] c = "install" -> "info: Successfully installed"
      [] c = "update" -> "info: Successfully updated"
      [] c = "uninstall" /\ outcome = "true" -> "info: Successfully uninstalled"
      [] c = "uninstall" /\ outcome = "false" -> "warn: was not installed"
      [] c = "info" -> "info: Package"

FailureMessage(c) ==
    CASE c = "list" -> "error: Failed to fetch installed packages"
      [] c = "outdated" -> "error: Failed to check outdated packages"
      [] c = "install" -> "error: Failed to install"
      [] c = "update" -> "error: Failed to update"
      [] c = "uninstall" -> "error: Failed to uninstall"
      [] c = "search" -> "error: Search failed"
      [] c = "info" -> "error: Failed to fetch package info"

\* a catch block that logs and forgets process.exit(1)
OperationExitCode_NoExit(outcome) == 0

\* an uninstall that treats `false` as a failure
OperationExitCode_FalseIsFailure(outcome) ==
    IF outcome \in {"raised", "false"} THEN 1 ELSE 0

\* process.exit(1) in a catch block; 0 when the action returns
OperationExitCode(outcome) == IF outcome = "raised" THEN 1 ELSE 0

\* new IPM({appVersion, accessKeyId: accessKey?.accessKeyId, ...})
getIPM(stored, fault) ==
    LET accessKey == getAccessToken(stored, fault).value
    IN  [built |-> TRUE,
         accessKeyId |-> IF accessKey = Null THEN Undefined
                         ELSE accessKey[1].accessKeyId,
         secretAccessKey |-> IF accessKey = Null THEN Undefined
                             ELSE accessKey[1].secretAccessKey]

NoClient == [built |-> FALSE, accessKeyId |-> Undefined, secretAccessKey |-> Undefined]

(* ------------------------------ state ---------------------------------- *)

VARIABLES
    keyring,        \* the secret held by the OS credential store, or Null
    keyring0,       \* the secret it held when this invocation started
    cmd,            \* the command of this invocation
    pc,             \* where the invocation is
    authToken,      \* ensureAuthenticated: `token`, its first read
    existingToken,  \* configure: `existingToken`
    answer,         \* configure: `answer`, Null until the prompt resolves
    token,          \* configure: `token`, Null until the prompt resolves
    returned,       \* the value ensureAuthenticated returned
    ipm,            \* the client built by getIPM
    opCalls,        \* calls of the external operation in this invocation
    result,         \* how the external operation completed
    ending,         \* why the invocation ended
    exitCode,       \* the process exit code, once pc = "done"
    out,            \* the logger calls of this invocation
    trace,          \* the calls to the collaborators in this invocation
    lastRead        \* the latest getAccessToken call: store, fault, completion

vars == <<keyring, keyring0, cmd, pc, authToken, existingToken, answer,
          token, returned, ipm, opCalls, result, ending, exitCode, out,
          trace, lastRead>>

locals == <<authToken, existingToken, answer, token, returned, ipm,
            opCalls, result>>

\* a well-formed stored secret: "<accessKeyId>:<secretAccessKey>"
WellFormedSecrets == {<<"a", Colon, "a">>}

Init ==
    /\ keyring \in {Null} \cup {Some(s) : s \in WellFormedSecrets}
    /\ keyring0 = keyring
    /\ cmd \in Commands
    /\ pc = "start"
    /\ authToken = Null
    /\ existingToken = Null
    /\ answer = Null
    /\ token = Null
    /\ returned = Null
    /\ ipm = NoClient
    /\ opCalls = 0
    /\ result = "pending"
    /\ ending = "running"
    /\ exitCode = 0
    /\ out = <<>>
    /\ trace = <<>>
    /\ lastRead = Null

\* one getAccessToken call, recorded
Read(fault) == [stored |-> keyring, fault |-> fault,
                completion |-> getAccessToken(keyring, fault)]

\* the process ends
Exit(code, why) ==
    /\ pc' = "done"
    /\ exitCode' = code
    /\ ending' = why

\* configure() returns to its caller
ReturnFromConfigure ==
    IF AfterConfigure(cmd) = "exit"
    THEN Exit(0, "completed")
    ELSE /\ pc' = AfterConfigure(cmd)
         /\ UNCHANGED <<exitCode, ending>>

(* ----------------------------- actions --------------------------------- *)

\* program.command('configure').action: configure() is entered at once
ConfigureCommand ==
    /\ pc = "start"
    /\ cmd = "configure"
    /\ pc' = "configure"
    /\ out' = Append(out, "info: Configuring Inkdrop CLI...")
    /\ trace' = Append(trace, "configure")
    /\ UNCHANGED <<keyring, keyring0, cmd, locals, ending, exitCode, lastRead>>

\* ensureAuthenticated, lines 54-58: the first read, then configure() if absent
EnsureAuthenticated ==
    /\ pc = "start"
    /\ cmd \in DataCommands
    /\ \E fault \in ReadFaults :
          LET r == Read(fault)
          IN  /\ lastRead' = Some(r)
              /\ authToken' = Some(r.completion.value)
              /\ IF NeedsConfigure(r.completion.value)
                 THEN /\ pc' = "configure"
                      /\ out' = out \o <<"info: You are not authenticated yet.",
                                         "info: Configuring Inkdrop CLI...">>
                      /\ trace' = Append(trace, "configure")
                 ELSE /\ pc' = "reread"
                      /\ UNCHANGED <<out, trace>>
    /\ UNCHANGED <<keyring, keyring0, cmd, existingToken, answer, token,
                   returned, ipm, opCalls, result, ending, exitCode>>

\* configure, lines 13-27: read; ask to reconfigure when a credential exists,
\* otherwise call openAccessKeyPage
ConfigureCheck ==
    /\ pc = "configure"
    /\ \E fault \in ReadFaults :
          LET r == Read(fault)
          IN  /\ lastRead' = Some(r)
              /\ existingToken' = Some(r.completion.value)
              /\ IF r.completion.value # Null
                 THEN /\ pc' = "askReconfigure"
                      /\ out' = Append(out, "info: You are already authenticated.")
                      /\ trace' = Append(trace, "reconfigurePrompt")
                 ELSE /\ pc' = "launch"
                      /\ out' = Append(out, "info: Opening Inkdrop desktop app")
                      /\ trace' = Append(trace, "openAccessKeyPage")
    /\ UNCHANGED <<keyring, keyring0, cmd, authToken, answer, token, returned,
                   ipm, opCalls, result, ending, exitCode>>

\* configure, lines 16-27: the reconfigure prompt resolves
ConfigureAnswer ==
    /\ pc = "askReconfigure"
    /\ \E line \in RawAnswers :
          LET ans == prompt(line)
          IN  /\ answer' = Some(ans)
              /\ IF Declines(ans)
                 THEN /\ out' = Append(out, "info: Configuration cancelled.")
                      /\ trace' = trace
                      /\ ReturnFromConfigure
                 ELSE /\ out' = Append(out, "info: Opening Inkdrop desktop app")
                      /\ trace' = Append(trace, "openAccessKeyPage")
                      /\ pc' = "launch"
                      /\ UNCHANGED <<exitCode, ending>>
    /\ UNCHANGED <<keyring, keyring0, cmd, authToken, existingToken, token,
                   returned, ipm, opCalls, result, lastRead>>

\* configure, lines 27-32: openAccessKeyPage resolves and the token prompt is
\* shown, or it rejects; the rejection is caught nowhere in configure, in
\* ensureAuthenticated or in main, so the run ends as an unhandled rejection
\* (exit code 1 of the runtime)
OpenAccessKeyPageSettles ==
    /\ pc = "launch"
    /\ \E opened \in BOOLEAN :
          IF opened
          THEN /\ pc' = "promptToken"
               /\ trace' = Append(trace, "tokenPrompt")
               /\ UNCHANGED <<exitCode, ending>>
          ELSE /\ trace' = trace
               /\ Exit(1, "openRejected")
    /\ UNCHANGED <<keyring, keyring0, cmd, locals, out, lastRead>>

\* configure, lines 30-47: the token prompt resolves; an empty token ends
\* the process, any other is saved, and a failed save ends the process
ConfigureToken ==
    /\ pc = "promptToken"
    /\ \E line \in RawTokens :
          LET tok == prompt(line)
          IN  /\ token' = Some(tok)
              /\ IF IsEmptyToken(tok)
                 THEN /\ out' = Append(out, "error: Access token cannot be empty.")
                      /\ Exit(1, "emptyToken")
                      /\ UNCHANGED <<keyring, trace>>
                 ELSE \E fault \in WriteFaults :
                      LET saved == saveAccessToken(keyring, tok, fault)
                      IN  /\ trace' = Append(trace, "saveAccessToken")
                          /\ keyring' = saved.stored
                          /\ IF saved.threw
                             THEN /\ out' = Append(out, "error: Error saving access token")
                                  /\ Exit(1, "saveFailed")
                             ELSE /\ out' = Append(out, "info: Access token saved successfully!")
                                  /\ ReturnFromConfigure
    /\ UNCHANGED <<keyring0, cmd, authToken, existingToken, answer, returned,
                   ipm, opCalls, result, lastRead>>

\* ensureAuthenticated, line 59: the second read, returned to the command
EnsureAuthenticatedReturn ==
    /\ pc = "reread"
    /\ \E fault \in ReadFaults :
          LET r == Read(fault)
          IN  /\ lastRead' = Some(r)
              /\ returned' = Some(r.completion.value)
    /\ pc' = "getIPM"
    /\ trace' = Append(trace, "ensured")
    /\ UNCHANGED <<keyring, keyring0, cmd, authToken, existingToken, answer,
                   token, ipm, opCalls, result, ending, exitCode, out>>

\* the command's action, `const ipm = getIPM()`: a third read builds the client
GetIPM ==
    /\ pc = "getIPM"
    /\ \E fault \in ReadFaults :
          /\ lastRead' = Some(Read(fault))
          /\ ipm' = getIPM(keyring, fault)
    /\ pc' = "invoke"
    /\ trace' = Append(trace, "getIPM")
    /\ UNCHANGED <<keyring, keyring0, cmd, authToken, existingToken, answer,
                   token, returned, opCalls, result, ending, exitCode, out>>

\* the command's try block: the external operation is called once and settles
InvokeOperation ==
    /\ pc = "invoke"
    /\ \E outcome \in Outcomes(cmd) :
          /\ result' = outcome
          /\ out' = Append(out, IF outcome = "raised" THEN FailureMessage(cmd)
                                ELSE SuccessMessage(cmd, outcome))
          /\ Exit(OperationExitCode(outcome),
                  IF outcome = "raised" THEN "operationFailed" ELSE "completed")
    /\ opCalls' = opCalls + 1
    /\ trace' = Append(trace, "operation")
    /\ UNCHANGED <<keyring, keyring0, cmd, authToken, existingToken, answer,
                   token, returned, ipm, lastRead>>

\* the process is gone: nothing of the invocation is left but the keyring
ProcessExits ==
    /\ pc = "done"
    /\ pc' = "exited"
    /\ keyring0' = keyring
    /\ authToken' = Null
    /\ existingToken' = Null
    /\ answer' = Null
    /\ token' = Null
    /\ returned' = Null
    /\ ipm' = NoClient
    /\ opCalls' = 0
    /\ result' = "pending"
    /\ ending' = "running"
    /\ exitCode' = 0
    /\ out' = <<>>
    /\ trace' = <<>>
    /\ lastRead' = Null
    /\ UNCHANGED <<keyring, cmd>>

\* the program is invoked again, on the keyring the last invocation left
NewRun ==
    /\ pc = "exited"
    /\ cmd' \in Commands
    /\ pc' = "start"
    /\ UNCHANGED <<keyring, keyring0, locals, ending, exitCode, out, trace,
                   lastRead>>

Next ==
    \/ ConfigureCommand
    \/ EnsureAuthenticated
    \/ ConfigureCheck
    \/ ConfigureAnswer
    \/ OpenAccessKeyPageSettles
    \/ ConfigureToken
    \/ EnsureAuthenticatedReturn
    \/ GetIPM
    \/ InvokeOperation
    \/ ProcessExits
    \/ NewRun

Spec == Init /\ [][Next]_vars

(* ------------------- vocabulary of the properties ----------------------- *)

Has(seq, e) == \E i \in DOMAIN seq : seq[i] = e

Count(seq, e) == Cardinality({i \in DOMAIN seq : seq[i] = e})

\* index of the first e in seq, 0 when there is none
Pos(seq, e) ==
    IF Has(seq, e)
    THEN CHOOSE i \in DOMAIN seq :
             seq[i] = e /\ \A j \in 1..(i - 1) : seq[j] # e
    ELSE 0

HasColon(s) == Has(s, Colon)
BeforeFirstColon(s) == SubSeq(s, 1, Pos(s, Colon) - 1)
AfterFirstColon(s) == SubSeq(s, Pos(s, Colon) + 1, Len(s))

IsBlank(s) == \A i \in DOMAIN s : s[i] = Space

\* the calls the Authentication Flow makes once it goes past the reconfigure prompt
FlowCalls == {"openAccessKeyPage", "tokenPrompt", "saveAccessToken"}

\* the command's action has begun
Started == pc \notin {"start", "exited"}

Done == pc = "done"
Ensured == Has(trace, "ensured")
Invoked == Has(trace, "operation")

\* the latest read found a secret in a store that did not raise
ReadWorked == /\ lastRead # Null
              /\ lastRead[1].fault = "none"
              /\ lastRead[1].stored # Null
              /\ lastRead[1].stored[1] # <<>>

\* a credential was present and the reconfigure prompt was answered with
\* something other than y or yes
Declined ==
    /\ existingToken # Null
    /\ existingToken[1] # Null
    /\ answer # Null
    /\ ToLowerCase(answer[1]) \notin {<<"y">>, <<"y", "e", "s">>}

\* nothing was raised to the run: no operation error, no failed write, no
\* empty token, no rejected launch (read errors are swallowed by the read)
MetNoError ==
    /\ result # "raised"
    /\ ~Has(out, "error: Error saving access token")
    /\ ~(token # Null /\ token[1] = <<>>)
    /\ ending # "openRejected"
    /\ \A c \in DataCommands : ~Has(out, FailureMessage(c))

ClientHasNoCredential ==
    ipm.built /\ ipm.accessKeyId = Undefined /\ ipm.secretAccessKey = Undefined

\* the client holds the first two colon-separated fields of s
ClientHasCredentialOf(s) ==
    /\ ipm.built
    /\ ipm.accessKeyId = Split(s)[1]
    /\ ipm.secretAccessKey = (IF Len(Split(s)) >= 2 THEN Split(s)[2] ELSE Undefined)

\* the client holds what getIPM's own read of the store gave it
ClientHasWhatGetIPMRead ==
    /\ lastRead # Null
    /\ IF ReadWorked THEN ClientHasCredentialOf(lastRead[1].stored[1])
       ELSE ClientHasNoCredential

(* ------------------------------ C1 ------------------------------------- *)

\* C1: getAccessToken never propagates an error.  Whatever the store holds
\* and whether or not it raises (in the Entry constructor or in getPassword),
\* the call returns, with a credential or with null; it returns null whenever
\* nothing is stored or the store raises.
C1_ReadNeverThrows ==
    lastRead # Null =>
        LET r == lastRead[1]
        IN  /\ ~r.completion.threw
            /\ \/ r.completion.value = Null
               \/ /\ Len(r.completion.value) = 1
                  /\ DOMAIN r.completion.value[1] = {"accessKeyId", "secretAccessKey"}
            /\ (r.stored = Null \/ r.fault # "none") => r.completion.value = Null

\* a secret is stored, the store raises, and the read came back null
C1_Witness ==
    /\ lastRead # Null
    /\ lastRead[1].stored # Null
    /\ lastRead[1].fault = "getPassword"
    /\ ~lastRead[1].completion.threw
    /\ lastRead[1].completion.value = Null

(* ------------------------------ C2 ------------------------------------- *)

\* C2: reading parses the stored string on the first colon.  For every
\* non-empty stored string containing a colon the read returns accessKeyId =
\* the part before the first colon and secretAccessKey = the whole part after
\* the first colon.
C2_SplitsOnFirstColonOnly ==
    (ReadWorked /\ HasColon(lastRead[1].stored[1])) =>
        LET s == lastRead[1].stored[1]
            v == lastRead[1].completion.value
        IN  /\ v # Null
            /\ v[1].accessKeyId = BeforeFirstColon(s)
            /\ v[1].secretAccessKey = AfterFirstColon(s)

(* ------------------------------ C3 ------------------------------------- *)

\* C3: when a credential is present and the trimmed answer to the reconfigure
\* prompt is, ignoring case, neither "y" nor "yes" (the empty answer
\* included), the flow ends with no changes: the URI is not launched, the
\* token prompt is not shown, saveAccessToken is not called, and the store
\* holds what it held before the flow.
C3_DeclineChangesNothing ==
    Declined =>
        /\ \A call \in FlowCalls : ~Has(trace, call)
        /\ token = Null
        /\ keyring = keyring0
        /\ pc \in {"done", "reread", "getIPM", "invoke"}
        /\ Has(out, "info: Configuration cancelled.")

\* the configure command, a stored credential, the empty answer: cancelled
C3_Witness ==
    /\ Declined
    /\ cmd = "configure"
    /\ answer = Some(<<>>)
    /\ Done
    /\ keyring = Some(<<"a", Colon, "a">>)

(* ------------------------------ C4 ------------------------------------- *)

\* C4: if the pasted token is empty or only whitespace, the process ends with
\* a non-zero exit code and saveAccessToken is never called, so the store is
\* unchanged; every call of saveAccessToken passes a non-empty trimmed token.
C4_BlankTokenIsFatal ==
    /\ (token # Null /\ IsBlank(token[1])) =>
           /\ Done
           /\ exitCode # 0
           /\ ~Has(trace, "saveAccessToken")
           /\ keyring = keyring0
    /\ Has(trace, "saveAccessToken") =>
           /\ token # Null
           /\ token[1] # <<>>
           /\ ~IsBlank(token[1])
           /\ token[1][1] # Space
           /\ token[1][Len(token[1])] # Space

\* a blank token ended the process with exit code 1
C4_Witness ==
    /\ token # Null
    /\ IsBlank(token[1])
    /\ Done
    /\ exitCode = 1
    /\ Has(out, "error: Access token cannot be empty.")

(* ------------------------------ C5 ------------------------------------- *)

\* C5: every data command ensures authentication, then constructs the client,
\* then invokes the external operation: the operation is invoked at most once
\* per run and never before ensureAuthenticated, with any Authentication Flow
\* it started, has completed; the configure command never invokes one.
C5_AuthenticateThenBuildThenInvoke ==
    /\ opCalls <= 1
    /\ Count(trace, "operation") = opCalls
    /\ cmd = "configure" =>
           /\ opCalls = 0
           /\ ~Has(trace, "getIPM")
           /\ ~Ensured
    /\ Invoked =>
           /\ cmd \in DataCommands
           /\ 0 < Pos(trace, "ensured")
           /\ Pos(trace, "ensured") < Pos(trace, "getIPM")
           /\ Pos(trace, "getIPM") < Pos(trace, "operation")
           /\ Pos(trace, "operation") = Len(trace)
    /\ Ensured =>
           \A i \in DOMAIN trace :
               trace[i] \in FlowCalls \cup {"configure", "reconfigurePrompt"}
                   => i < Pos(trace, "ensured")

\* a data command whose guard ran the whole flow and then invoked its operation
C5_Witness ==
    /\ cmd = "install"
    /\ Done
    /\ opCalls = 1
    /\ Has(trace, "saveAccessToken")
    /\ Pos(trace, "saveAccessToken") < Pos(trace, "ensured")

(* ------------------------------ C6 ------------------------------------- *)

\* C6 as claimed: a data command started with nothing stored triggers the
\* Authentication Flow without a reconfigure prompt; when the operation is
\* invoked the store holds exactly the pasted token t, the client is built
\* with the credential parsed from t, and the write came before the operation.
C6_ListAfterFirstLogin ==
    (cmd \in DataCommands /\ keyring0 = Null) =>
        /\ ~Has(trace, "reconfigurePrompt")
        /\ Started => Has(trace, "configure")
        /\ Invoked =>
               /\ token # Null
               /\ token[1] # <<>>
               /\ keyring = Some(token[1])
               /\ 0 < Pos(trace, "saveAccessToken")
               /\ Pos(trace, "saveAccessToken") < Pos(trace, "operation")
               /\ ClientHasCredentialOf(token[1])

\* C6 as amended: the same, except that the client is built with the
\* credential parsed from t only if getIPM's own read of the store does not
\* raise; if it raises the client is built with no credential.
C6_ListAfterFirstLoginUnlessReadRaises ==
    (cmd \in DataCommands /\ keyring0 = Null) =>
        /\ ~Has(trace, "reconfigurePrompt")
        /\ Started => Has(trace, "configure")
        /\ Invoked =>
               /\ token # Null
               /\ token[1] # <<>>
               /\ keyring = Some(token[1])
               /\ 0 < Pos(trace, "saveAccessToken")
               /\ Pos(trace, "saveAccessToken") < Pos(trace, "operation")
               /\ lastRead # Null
               /\ lastRead[1].stored = Some(token[1])
               /\ IF lastRead[1].fault = "none"
                  THEN ClientHasCredentialOf(token[1])
                  ELSE ClientHasNoCredential

\* list on an empty store, "a:a" pasted and saved, getInstalled returned packages
C6_Witness ==
    /\ cmd = "list"
    /\ keyring0 = Null
    /\ token = Some(<<"a", Colon, "a">>)
    /\ keyring = Some(<<"a", Colon, "a">>)
    /\ ipm = [built |-> TRUE, accessKeyId |-> <<"a">>, secretAccessKey |-> <<"a">>]
    /\ result = "some"
    /\ Done
    /\ exitCode = 0
    /\ out[Len(out)] = "info: Installed packages"

(* ------------------------------ C7 ------------------------------------- *)

\* C7: all error paths exit with code 1.  If the external operation raises,
\* the process ends with exit code 1 after reporting it, the operation having
\* been called once; the same for a failed credential write and for an empty
\* token; and every run that meets no error ends with exit code 0.
C7_ErrorsExitOne ==
    /\ result = "raised" =>
           /\ Done
           /\ exitCode = 1
           /\ opCalls = 1
           /\ out[Len(out)] = FailureMessage(cmd)
    /\ Has(out, "error: Error saving access token") =>
           /\ Done
           /\ exitCode = 1
           /\ Count(trace, "saveAccessToken") = 1
           /\ opCalls = 0
    /\ (token # Null /\ token[1] = <<>>) =>
           /\ Done
           /\ exitCode = 1
           /\ opCalls = 0
    /\ Count(trace, "saveAccessToken") <= 1
    /\ (Done /\ MetNoError) => exitCode = 0
    /\ (Done /\ exitCode = 0) => MetNoError

\* a search whose external call raised
C7_Witness ==
    /\ cmd = "search"
    /\ result = "raised"
    /\ Done
    /\ exitCode = 1
    /\ out[Len(out)] = "error: Search failed"

(* ------------------------------ C8 ------------------------------------- *)

\* C8: in every reachable state, from an empty store or a well-formed one, the
\* store is empty or holds "<accessKeyId>:<secretAccessKey>", a string with
\* exactly one colon.
C8_StoredSecretHasOneColon ==
    keyring = Null \/ Count(keyring[1], Colon) = 1

(* ------------------------------ C9 ------------------------------------- *)

\* what C9 says of the guard: it runs the flow exactly when its first read is
\* absent, then re-reads and returns what it read; once it has returned, a
\* run ends only after the client was built and the operation invoked
GuardRunsFlowThenRereads ==
    /\ (cmd \in DataCommands /\ Started) =>
           /\ authToken # Null
           /\ Has(trace, "configure") <=> authToken[1] = Null
    /\ pc = "getIPM" =>
           /\ returned # Null
           /\ lastRead # Null
           /\ lastRead[1].stored = keyring
           /\ returned[1] = lastRead[1].completion.value
    /\ (Ensured /\ Done) =>
           /\ ipm.built
           /\ opCalls = 1
           /\ ending \in {"completed", "operationFailed"}

\* C9 as claimed: the above, and when the guard returned absent the client
\* is constructed with no credential.
C9_AbsentGuardBuildsBareClient ==
    /\ GuardRunsFlowThenRereads
    /\ (Ensured /\ Done /\ returned = Some(Null)) => ClientHasNoCredential

\* C9 as amended: the above, and when the guard returned absent the client is
\* constructed with whatever getIPM's own read of the store returns: no
\* credential if that read is absent too, the stored credential otherwise.
C9_AbsentGuardStillInvokes ==
    /\ GuardRunsFlowThenRereads
    /\ (Ensured /\ Done /\ returned = Some(Null)) => ClientHasWhatGetIPMRead

\* the user declined to reconfigure, the re-read raised, the operation ran
C9_Witness ==
    /\ cmd \in DataCommands
    /\ Declined
    /\ returned = Some(Null)
    /\ Done
    /\ opCalls = 1
    /\ ClientHasNoCredential

(* ------------------------------ C10 ------------------------------------ *)

=============================================================================
